---- MODULE Spec2Model ----
(***************************************************************************)
(* Model of the Bookmarks component (src/src/components/Bookmarks.tsx):    *)
(* the component's React state, its handlers and effects, the requests it  *)
(* has in flight at the data store, the store's table and the pending      *)
(* change notifications.  Every handler is one action; every await is a    *)
(* point where other handlers may run, so a call that awaits the store is  *)
(* split into the step that issues the request, the step in which the      *)
(* store serves it, and the step in which the continuation runs.           *)
(*                                                                         *)
(* Text is modelled as a sequence of tokens; a token is a run of           *)
(* characters that the code's string operations never split.               *)
(***************************************************************************)
EXTENDS Integers, Sequences, FiniteSets, TLC

VARIABLES
    title,       \* useState: the title field of the form
    url,         \* useState: the URL field of the form
    items,       \* useState: the list of bookmarks shown
    loading,     \* useState
    submitting,  \* useState
    deletingId,  \* useState: 0 stands for null
    message,     \* useState: the toast, NoMessage stands for null
    timers,      \* pending setTimeout callbacks of the auto-hide effect
    fetch,       \* fetchBookmarks calls in flight, by slot
    add,         \* the addBookmark call awaiting its insert
    del,         \* deleteBookmark calls in flight, by slot
    store,       \* the rows of table "bookmarks"
    nextId,      \* the store's identifier / timestamp counter
    events,      \* postgres_changes events not yet handed to the handler
    hist,        \* history: what was last written to items, and by whom
    phase,       \* "rendered", "mounted" (effects have run) or "torn" (cleanups have run)
    session,     \* the access token of the current session, 0 stands for none
    rtAuth,      \* the token last given to supabase.realtime.setAuth, 0: none yet
    setup,       \* setupRealtime: where the call stands and the token it read
    channels,    \* the realtime channels, by name
    listeners,   \* the listeners registered: auth state, window focus, visibilitychange
    lastEvent    \* history: the token of the latest auth event handed to the listener

\* The state of the list, the form and the store.
dataVars == << title, url, items, loading, submitting, deletingId, message,
               timers, fetch, add, del, store, nextId, events, hist >>

\* The state of the subscriptions and listeners.
lifeVars == << phase, session, rtAuth, setup, channels, listeners, lastEvent >>

vars == << dataVars, lifeVars >>

----------------------------------------------------------------------------
(* Bounds of the model *)

MaxId == 3        \* identifiers the store hands out
MaxInFlight == 2  \* requests the component has at the store at once
MaxDel == 2       \* of them deletes
MaxEvents == 1    \* change events waiting for the handler
MaxLen == 3       \* tokens in a text typed into the form
MaxToken == 3     \* access tokens the identity provider hands out

MaxFetch == MaxInFlight

----------------------------------------------------------------------------
(* Text *)

Space == " "
HttpTokens == { "http://", "https://", "HTTP://" }
SchemeTokens == HttpTokens \cup { "ftp://" }
UrlTokens == SchemeTokens \cup { Space, "a", "/" }
TitleTokens == { Space, "a" }

RECURSIVE SeqsUpTo(_, _)
SeqsUpTo(S, n) ==
    IF n = 0 THEN { << >> }
    ELSE LET shorter == SeqsUpTo(S, n - 1)
         IN  shorter \cup { Append(s, c) : s \in shorter, c \in S }

RECURSIVE TrimStart(_)
TrimStart(s) ==
    IF s # << >> /\ Head(s) = Space THEN TrimStart(Tail(s)) ELSE s

RECURSIVE TrimEnd(_)
TrimEnd(s) ==
    IF s # << >> /\ s[Len(s)] = Space
    THEN TrimEnd(SubSeq(s, 1, Len(s) - 1))
    ELSE s

Trim(s) == TrimEnd(TrimStart(s))

\* /^https?:\/\//i.test(v)
HasHttpPrefix(v) == v # << >> /\ Head(v) \in HttpTokens

\* normalizeUrl without the trim
normalizeUrlUntrimmed(raw) ==
    IF raw = << >> THEN << >>
    ELSE IF ~HasHttpPrefix(raw) THEN << "https://" >> \o raw
    ELSE raw

normalizeUrl(raw) ==
    LET v == Trim(raw)
    IN  IF v = << >> THEN << >>
        ELSE IF ~HasHttpPrefix(v) THEN << "https://" >> \o v
        ELSE v

RECURSIVE SkipSlashes(_)
SkipSlashes(s) ==
    IF s # << >> /\ Head(s) = "/" THEN SkipSlashes(Tail(s)) ELSE s

\* The authority of a special-scheme URL: what follows the scheme's slashes
\* up to the next "/".  A scheme token inside it contributes its letters and
\* a ":" with an empty port, and its slashes end the authority.
RECURSIVE Authority(_)
Authority(s) ==
    IF s = << >> \/ Head(s) = "/" THEN << >>
    ELSE IF Head(s) \in SchemeTokens THEN << Head(s) >>
    ELSE << Head(s) >> \o Authority(Tail(s))

\* new URL(u) does not throw.  u is the result of normalizeUrl.
UrlParses(u) ==
    /\ HasHttpPrefix(u)
    /\ LET host == Authority(SkipSlashes(Tail(u)))
       IN  /\ host # << >>
           /\ \A i \in 1..Len(host) : host[i] # Space

----------------------------------------------------------------------------
(* Records *)

Owner == "u1"       \* the userId prop: the authenticated user
Stranger == "u2"    \* another user of the same table

NoMessage == [type |-> "null", text |-> ""]
NoTimers == [cur |-> 0, old |-> 0]
\* error.message of a failed select, insert and delete
SelectErrors == { "select failed" }
InsertErrors == { "insert failed" }
DeleteErrors == { "delete failed" }

Bookmark(id, user, t, u) ==
    [id |-> id, user_id |-> user, title |-> t, url |-> u, created_at |-> id]

IdleFetch == [phase |-> "idle", by |-> "", error |-> "", data |-> << >>,
              fresh |-> FALSE, ov |-> FALSE]
IdleAdd == [phase |-> "idle", user_id |-> "", title |-> << >>, url |-> << >>,
            error |-> "", data |-> << >>]
IdleDel == [phase |-> "idle", id |-> 0, error |-> ""]

FormTitles == { << >>, << "a" >> }
FormUrls == { << >>, << "a" >> }


----------------------------------------------------------------------------
(* The data store *)

RECURSIVE SortDesc(_)
\* .order("created_at", { ascending: false })
SortDesc(S) ==
    IF S = {} THEN << >>
    ELSE LET m == CHOOSE r \in S : \A q \in S : q.created_at <= r.created_at
         IN  << m >> \o SortDesc(S \ {m})

\* Row level security: a session sees the rows of its own user only.
Visible(rows) == { r \in rows : r.user_id = Owner }

\* a select that is not restricted to the session's user
SelectEveryRow(rows) == SortDesc(rows)

\* a select in ascending order
SelectOldestFirst(rows) ==
    LET desc == SortDesc(Visible(rows))
    IN  [k \in 1..Len(desc) |-> desc[Len(desc) + 1 - k]]

\* from("bookmarks").select("*").order("created_at", {ascending: false})
SelectRows(rows) == SortDesc(Visible(rows))

\* from("bookmarks").delete().eq("id", id)
DeleteRows(rows, id) == { r \in rows : ~(r.id = id /\ r.user_id = Owner) }

Bump(n) == IF n < MaxEvents THEN n + 1 ELSE n

\* History kept when a row of the owner changes: no snapshot read before the
\* change is fresh any longer.
StaleFetches == [i \in 1..MaxFetch |-> [fetch[i] EXCEPT !.fresh = FALSE]]

----------------------------------------------------------------------------
(* The toast and its auto-hide effect *)

\* A pending timeout belongs either to the current run of the effect (cur:
\* scheduled for the message now shown) or to an earlier run (old).

\* an effect without cleanup
NoCleanup(ts) == ts

\* return () => clearTimeout(t): the previous run of the effect drops its timer.
EffectCleanup(ts) == [ts EXCEPT !.cur = 0]

\* The effect on [message] after a render that changed message to m: cleanup
\* of the previous run, then a new timer unless m is null.  A timer the
\* cleanup left behind is an old one from now on.
EffectTimers(ts, m) ==
    LET left == EffectCleanup(ts)
    IN  [cur |-> IF m = NoMessage THEN 0 ELSE 1, old |-> left.old + left.cur]

\* setMessage(m), with m a new object or null.  Setting null while the
\* message is null changes nothing and runs no effect.
SetMessage(m) ==
    /\ message' = m
    /\ timers' = IF m = NoMessage /\ message = NoMessage THEN timers
                 ELSE EffectTimers(timers, m)

Notice(type, text) == [type |-> type, text |-> text]

\* an error notice with a text of its own
GenericErrorNotice(e) == Notice("err", "Something went wrong.")

\* setMessage({ type: "err", text: error.message })
ErrorNotice(e) == Notice("err", e)

\* setTimeout(() => setMessage(null), 2500) fires: the timer of the message
\* shown, or one left behind by an earlier message.
TimerFire(own) ==
    /\ IF own THEN timers.cur > 0 ELSE timers.old > 0
    /\ LET rest == IF own THEN [timers EXCEPT !.cur = @ - 1]
                          ELSE [timers EXCEPT !.old = @ - 1]
       IN  /\ message' = NoMessage
           /\ timers' = IF message = NoMessage THEN rest
                        ELSE EffectTimers(rest, NoMessage)
    /\ UNCHANGED << title, url, items, loading, submitting, deletingId,
                    fetch, add, del, store, nextId, events, hist >>
    /\ UNCHANGED lifeVars

----------------------------------------------------------------------------
(* fetchBookmarks *)

ItemIds == { items[k].id : k \in 1..Len(items) }

InFlight ==
    Cardinality({ i \in 1..MaxFetch : fetch[i].phase # "idle" })
    + Cardinality({ j \in 1..MaxDel : del[j].phase # "idle" })
    + (IF add.phase # "idle" THEN 1 ELSE 0)

FreeFetch ==
    IF InFlight < MaxInFlight
    THEN { i \in 1..MaxFetch : fetch[i].phase = "idle" }
    ELSE {}
IdleFetches == { i \in 1..MaxFetch : fetch[i].phase = "idle" }
FirstIdle == CHOOSE i \in IdleFetches : \A j \in IdleFetches : i <= j

\* The call up to its await: the select is sent.
StartFetch(by) ==
    [fetch EXCEPT ![FirstIdle] = [IdleFetch EXCEPT !.phase = "req", !.by = by]]

\* The store fails a select: { data: null, error }.
SelectFails(i) ==
    /\ fetch[i].phase = "req"
    /\ \E e \in SelectErrors :
          fetch' = [fetch EXCEPT ![i].phase = "resp", ![i].error = e]
    /\ UNCHANGED << title, url, items, loading, submitting, deletingId,
                    message, timers, add, del, store, nextId, events, hist >>
    /\ UNCHANGED lifeVars

\* The store serves a select with the rows the session may see.
SelectServes(i) ==
    /\ fetch[i].phase = "req"
    /\ fetch' = [fetch EXCEPT ![i].phase = "resp",
                              ![i].data = SelectRows(store),
                              ![i].fresh = TRUE]
    /\ UNCHANGED << title, url, items, loading, submitting, deletingId,
                    message, timers, add, del, store, nextId, events, hist >>
    /\ UNCHANGED lifeVars

\* the fetched rows put behind the rows shown
AppendFetch(prev, data) == prev \o data

\* the fetched rows put in front of the rows shown that they do not hold
MergeFetch(prev, data) ==
    data \o SelectSeq(prev, LAMBDA b : \A k \in 1..Len(data) : data[k].id # b.id)

\* setItems((data ?? []) as Bookmark[])
SetItemsFromFetch(prev, data) == data

\* loading cleared only when the initial load succeeded
LoadingAfterOkFetch(f, cur) ==
    IF f.by = "init" /\ f.error = "" /\ phase # "torn" THEN FALSE ELSE cur

\* if (mounted) setLoading(false), after the initial load's await; no other
\* caller of fetchBookmarks touches loading.
LoadingAfterFetch(f, cur) ==
    IF f.by = "init" /\ phase # "torn" THEN FALSE ELSE cur

\* The call after its await, and what its caller does when it returns:
\* the initial load clears loading, addBookmark's fallback clears the form
\* and reports success (both setMessage calls land in one render, the last
\* one stays).
FetchDone(i) ==
    /\ fetch[i].phase = "resp"
    /\ LET f == fetch[i]
           failed == f.error # ""
       IN  /\ items' = IF failed THEN items ELSE SetItemsFromFetch(items, f.data)
           /\ fetch' = [j \in 1..MaxFetch |->
                          IF j = i THEN IdleFetch
                          ELSE IF fetch[j].phase # "idle" /\ ~failed
                               THEN [fetch[j] EXCEPT !.ov = TRUE]
                               ELSE fetch[j]]
           /\ hist' = IF failed THEN hist
                      ELSE [hist EXCEPT !.op = "fetch", !.data = f.data,
                                        !.over = f.ov /\ hist.op = "fetch"
                                                      /\ items # f.data,
                                        !.fresh = f.fresh]
           /\ loading' = LoadingAfterFetch(f, loading)
           /\ IF f.by = "add"
              THEN /\ title' = << >>
                   /\ url' = << >>
                   /\ SetMessage(Notice("ok", "Bookmark added!"))
              ELSE /\ UNCHANGED << title, url >>
                   /\ IF failed THEN SetMessage(ErrorNotice(f.error))
                      ELSE UNCHANGED << message, timers >>
    /\ UNCHANGED << submitting, deletingId, add, del, store, nextId, events >>
    /\ UNCHANGED lifeVars

\* window "focus" / "visibilitychange" listener
Focus ==
    /\ listeners.focus \/ listeners.visibility
    /\ FreeFetch # {}
    /\ fetch' = StartFetch("event")
    /\ UNCHANGED << title, url, items, loading, submitting, deletingId,
                    message, timers, add, del, store, nextId, events, hist >>
    /\ UNCHANGED lifeVars

\* postgres_changes handler of a subscribed channel
Notify ==
    /\ \E c \in DOMAIN channels : channels[c].state = "subscribed"
    /\ events > 0
    /\ FreeFetch # {}
    /\ events' = events - 1
    /\ fetch' = StartFetch("event")
    /\ UNCHANGED << title, url, items, loading, submitting, deletingId,
                    message, timers, add, del, store, nextId, hist >>
    /\ UNCHANGED lifeVars

----------------------------------------------------------------------------
(* The form *)

\* onChange={(e) => setTitle(e.target.value)}
TypeTitle(t) ==
    /\ title # t
    /\ title' = t
    /\ UNCHANGED << url, items, loading, submitting, deletingId, message,
                    timers, fetch, add, del, store, nextId, events, hist >>
    /\ UNCHANGED lifeVars

\* onChange={(e) => setUrl(e.target.value)}
TypeUrl(u) ==
    /\ url # u
    /\ url' = u
    /\ UNCHANGED << title, items, loading, submitting, deletingId, message,
                    timers, fetch, add, del, store, nextId, events, hist >>
    /\ UNCHANGED lifeVars

----------------------------------------------------------------------------
(* addBookmark *)

\* the checks without the parse of the URL
ValidationErrorUnparsed(t, u) ==
    IF t = << >> THEN "Please enter a title."
    ELSE IF u = << >> THEN "Please enter a URL."
    ELSE ""

\* The three checks before the insert: the text of the error, "" when the
\* input passes.  t is the trimmed title, u the normalized URL.
ValidationError(t, u) ==
    IF t = << >> THEN "Please enter a title."
    ELSE IF u = << >> THEN "Please enter a URL."
    ELSE IF ~UrlParses(u) THEN "Please enter a valid URL."
    ELSE ""

\* insert({ user_id: userId, title: t, url: u })
InsertRequest(t, u) ==
    [IdleAdd EXCEPT !.phase = "req", !.user_id = Owner, !.title = t, !.url = u]

\* The handler up to its await.  The submit button is disabled while
\* submitting.
AddBookmark ==
    /\ ~submitting
    /\ LET t == Trim(title)
           u == normalizeUrl(url)
           e == ValidationError(t, u)
       IN  IF e # ""
           THEN /\ SetMessage(Notice("err", e))
                /\ UNCHANGED << submitting, add >>
           ELSE /\ InFlight < MaxInFlight
                /\ SetMessage(NoMessage)
                /\ submitting' = TRUE
                /\ add' = InsertRequest(t, u)
    /\ UNCHANGED << title, url, items, loading, deletingId, fetch, del,
                    store, nextId, events, hist >>
    /\ UNCHANGED lifeVars

\* The store serves the insert: an error, or the row is stored under a new
\* identifier and timestamp and returned (or, rarely, not returned).
StoreInsert ==
    /\ add.phase = "req"
    /\ \/ /\ \E e \in InsertErrors :
                add' = [add EXCEPT !.phase = "resp", !.error = e]
          /\ UNCHANGED << store, nextId, events, fetch, hist >>
       \/ /\ nextId <= MaxId
          /\ LET row == Bookmark(nextId, add.user_id, add.title, add.url)
             IN  /\ store' = store \cup {row}
                 /\ \E returned \in { << row >>, << >> } :
                       add' = [add EXCEPT !.phase = "resp", !.data = returned]
          /\ nextId' = nextId + 1
          /\ events' = Bump(events)
          /\ fetch' = StaleFetches
          /\ hist' = [hist EXCEPT !.fresh = FALSE]
    /\ UNCHANGED << title, url, items, loading, submitting, deletingId,
                    message, timers, del >>
    /\ UNCHANGED lifeVars

\* setItems((prev) => [data as Bookmark, ...prev])
Prepend(row, prev) == << row >> \o prev

\* the handler after its await, with setSubmitting(false) behind the return
\* of the error branch
AddDoneSubmittingLeft ==
    /\ add.phase = "resp"
    /\ submitting' = (add.error # "")
    /\ add' = IdleAdd
    /\ IF add.error # ""
       THEN /\ SetMessage(ErrorNotice(add.error))
            /\ UNCHANGED << title, url, items, fetch, hist >>
       ELSE IF add.data # << >>
       THEN /\ items' = Prepend(add.data[1], items)
            /\ title' = << >>
            /\ url' = << >>
            /\ SetMessage(Notice("ok", "Bookmark added!"))
            /\ hist' = [hist EXCEPT !.op = "add", !.data = << >>,
                                    !.over = FALSE, !.fresh = FALSE]
            /\ UNCHANGED fetch
       ELSE /\ fetch' = [fetch EXCEPT ![FirstIdle] =
                            [IdleFetch EXCEPT !.phase = "req", !.by = "add"]]
            /\ UNCHANGED << title, url, items, message, timers, hist >>
    /\ UNCHANGED << loading, deletingId, del, store, nextId, events >>
    /\ UNCHANGED lifeVars

\* The handler after its await.
AddDone ==
    /\ add.phase = "resp"
    /\ submitting' = FALSE
    /\ add' = IdleAdd
    /\ IF add.error # ""
       THEN /\ SetMessage(ErrorNotice(add.error))
            /\ UNCHANGED << title, url, items, fetch, hist >>
       ELSE IF add.data # << >>
       THEN /\ items' = Prepend(add.data[1], items)
            /\ title' = << >>
            /\ url' = << >>
            /\ SetMessage(Notice("ok", "Bookmark added!"))
            /\ hist' = [hist EXCEPT !.op = "add", !.data = << >>,
                                    !.over = FALSE, !.fresh = FALSE]
            /\ UNCHANGED fetch
       ELSE \* fallback: await fetchBookmarks(), in place of the insert
            /\ fetch' = [fetch EXCEPT ![FirstIdle] =
                            [IdleFetch EXCEPT !.phase = "req", !.by = "add"]]
            /\ UNCHANGED << title, url, items, message, timers, hist >>
    /\ UNCHANGED << loading, deletingId, del, store, nextId, events >>
    /\ UNCHANGED lifeVars

----------------------------------------------------------------------------
(* deleteBookmark *)

FreeDel ==
    IF InFlight < MaxInFlight
    THEN { j \in 1..MaxDel : del[j].phase = "idle" }
    ELSE {}

\* The handler up to its await.  The list is rendered once loading is over,
\* and the button of the row being deleted is disabled.
DeleteBookmark(id) ==
    /\ ~loading
    /\ id \in ItemIds
    /\ deletingId # id
    /\ FreeDel # {}
    /\ SetMessage(NoMessage)
    /\ deletingId' = id
    /\ LET j == CHOOSE k \in FreeDel : \A l \in FreeDel : k <= l
       IN  del' = [del EXCEPT ![j] = [IdleDel EXCEPT !.phase = "req", !.id = id]]
    /\ UNCHANGED << title, url, items, loading, submitting, fetch, add,
                    store, nextId, events, hist >>
    /\ UNCHANGED lifeVars

\* The store serves the delete: an error, or the owner's rows with that
\* identifier are gone.
StoreDelete(j) ==
    /\ del[j].phase = "req"
    /\ \/ /\ \E e \in DeleteErrors :
                del' = [del EXCEPT ![j].phase = "resp", ![j].error = e]
          /\ UNCHANGED << store, events, fetch, hist >>
       \/ /\ del' = [del EXCEPT ![j].phase = "resp"]
          /\ store' = DeleteRows(store, del[j].id)
          /\ IF store' # store
             THEN /\ events' = Bump(events)
                  /\ fetch' = StaleFetches
                  /\ hist' = [hist EXCEPT !.fresh = FALSE]
             ELSE UNCHANGED << events, fetch, hist >>
    /\ UNCHANGED << title, url, items, loading, submitting, deletingId,
                    message, timers, add, nextId >>
    /\ UNCHANGED lifeVars

\* removal of the first entry with the identifier, by its position
RemoveFirstMatch(prev, id) ==
    IF \E k \in 1..Len(prev) : prev[k].id = id
    THEN LET p == CHOOSE k \in 1..Len(prev) :
                     /\ prev[k].id = id
                     /\ \A l \in 1..(k - 1) : prev[l].id # id
         IN  SubSeq(prev, 1, p - 1) \o SubSeq(prev, p + 1, Len(prev))
    ELSE prev

\* removal of the entry at the head
RemoveHead(prev, id) == IF prev = << >> THEN prev ELSE Tail(prev)

\* setItems((prev) => prev.filter((b) => b.id !== id))
RemoveById(prev, id) == SelectSeq(prev, LAMBDA b : b.id # id)

\* The handler after its await.
DeleteDone(j) ==
    /\ del[j].phase = "resp"
    /\ deletingId' = 0
    /\ del' = [del EXCEPT ![j] = IdleDel]
    /\ IF del[j].error # ""
       THEN /\ SetMessage(ErrorNotice(del[j].error))
            /\ UNCHANGED << items, hist >>
       ELSE /\ items' = RemoveById(items, del[j].id)
            /\ SetMessage(Notice("ok", "Deleted."))
            /\ hist' = [hist EXCEPT !.op = "del", !.data = << >>,
                                    !.over = FALSE, !.fresh = FALSE,
                                    !.removed = del[j].id]
    /\ UNCHANGED << title, url, loading, submitting, fetch, add, store,
                    nextId, events >>
    /\ UNCHANGED lifeVars

----------------------------------------------------------------------------
(* Another tab or device of the same user adds a bookmark *)

OtherInsert ==
    /\ nextId <= MaxId
    /\ store' = store \cup { Bookmark(nextId, Owner, << "a" >>, << "https://", "a" >>) }
    /\ nextId' = nextId + 1
    /\ events' = Bump(events)
    /\ fetch' = StaleFetches
    /\ hist' = [hist EXCEPT !.fresh = FALSE]
    /\ UNCHANGED << title, url, items, loading, submitting, deletingId,
                    message, timers, add, del >>
    /\ UNCHANGED lifeVars

----------------------------------------------------------------------------
(* Subscriptions and listeners: the mount effects, their cleanups, and the
   session of the identity provider *)

\* `bookmarks:${userId}` of setupRealtime and "bookmarks-changes" of the
\* initial load effect
ChannelNames == { "user", "changes" }

\* A channel: not created, subscribed or removed; as history, the token the
\* transport held and the token of the session when it was subscribed.
NoChannel == [state |-> "none", auth |-> 0, sess |-> 0]
NoListeners == [auth |-> FALSE, focus |-> FALSE, visibility |-> FALSE]
AllListeners == [auth |-> TRUE, focus |-> TRUE, visibility |-> TRUE]
IdleSetup == [phase |-> "idle", token |-> 0]
AwaitingSession == [phase |-> "await", token |-> 0]

\* supabase.channel(name).on(...).subscribe()
Subscribe(auth) == [state |-> "subscribed", auth |-> auth, sess |-> session]

\* supabase.removeChannel(channel)
RemoveChannel(ch) ==
    IF ch.state = "subscribed" THEN [ch EXCEPT !.state = "removed"] ELSE ch

\* if (accessToken) supabase.realtime.setAuth(accessToken)
SetAuth(token, cur) == IF token # 0 THEN token ELSE cur

\* The three mount effects, in the order of the source: setupRealtime runs up
\* to its await of getSession and the auth listener is registered; the window
\* listeners are added; the initial load sends its select and the channel
\* "bookmarks-changes" is subscribed.
MountEffects ==
    /\ phase = "rendered"
    /\ phase' = "mounted"
    /\ setup' = AwaitingSession
    /\ listeners' = AllListeners
    /\ loading' = TRUE
    /\ fetch' = StartFetch("init")
    /\ channels' = [channels EXCEPT !["changes"] = Subscribe(rtAuth)]
    /\ UNCHANGED << session, rtAuth, lastEvent >>
    /\ UNCHANGED << title, url, items, submitting, deletingId, message,
                    timers, add, del, store, nextId, events, hist >>

\* supabase.auth.getSession() reads the session.
GetSessionResolves ==
    /\ setup.phase = "await"
    /\ setup' = [phase |-> "read", token |-> session]
    /\ UNCHANGED << phase, session, rtAuth, channels, listeners, lastEvent >>
    /\ UNCHANGED dataVars

\* setupRealtime after its await: the token it read goes to the transport,
\* then the channel is created and subscribed.
SetupContinues ==
    /\ setup.phase = "read"
    /\ setup' = [setup EXCEPT !.phase = "done"]
    /\ rtAuth' = SetAuth(setup.token, rtAuth)
    /\ channels' = [channels EXCEPT !["user"] = Subscribe(rtAuth')]
    /\ UNCHANGED << phase, session, listeners, lastEvent >>
    /\ UNCHANGED dataVars

\* The identity provider changes the session (t = 0: it ends) and calls the
\* onAuthStateChange listener, while it is registered.
SessionChange(t) ==
    /\ phase # "rendered"
    /\ t # session
    /\ session' = t
    /\ IF listeners.auth
       THEN /\ rtAuth' = SetAuth(t, rtAuth)
            /\ lastEvent' = IF t # 0 THEN t ELSE lastEvent
       ELSE UNCHANGED << rtAuth, lastEvent >>
    /\ UNCHANGED << phase, setup, channels, listeners >>
    /\ UNCHANGED dataVars

\* The cleanups of the three effects: the auth listener is unsubscribed and
\* the channel of setupRealtime removed if it was created by now; the "focus"
\* listener is removed (the "visibilitychange" listener was added as an
\* anonymous function and is not); the channel "bookmarks-changes" is removed.
Unmount ==
    /\ phase = "mounted"
    /\ phase' = "torn"
    /\ listeners' = [listeners EXCEPT !.auth = FALSE, !.focus = FALSE]
    /\ channels' = [c \in ChannelNames |-> RemoveChannel(channels[c])]
    /\ UNCHANGED << session, rtAuth, setup, lastEvent >>
    /\ UNCHANGED dataVars

\* window "focus": onFocus
FocusEvent ==
    /\ listeners.focus
    /\ FreeFetch # {}
    /\ fetch' = StartFetch("event")
    /\ UNCHANGED << title, url, items, loading, submitting, deletingId,
                    message, timers, add, del, store, nextId, events, hist >>
    /\ UNCHANGED lifeVars

\* "visibilitychange" with the document visible: onFocus
VisibilityEvent ==
    /\ listeners.visibility
    /\ FreeFetch # {}
    /\ fetch' = StartFetch("event")
    /\ UNCHANGED << title, url, items, loading, submitting, deletingId,
                    message, timers, add, del, store, nextId, events, hist >>
    /\ UNCHANGED lifeVars

----------------------------------------------------------------------------
(* The component after its first render and its mount effects: the form is
   empty, loading is on, the initial fetchBookmarks has sent its select. *)

NoHistory == [op |-> "none", data |-> << >>, over |-> FALSE, fresh |-> FALSE,
              removed |-> 0]

Mounted ==
    /\ items = << >>
    /\ loading = TRUE
    /\ submitting = FALSE
    /\ deletingId = 0
    /\ message = NoMessage
    /\ timers = NoTimers
    /\ fetch = [i \in 1..MaxFetch |->
                  IF i = 1 THEN [IdleFetch EXCEPT !.phase = "req", !.by = "init"]
                  ELSE IdleFetch]
    /\ add = IdleAdd
    /\ del = [j \in 1..MaxDel |-> IdleDel]
    /\ store = { Bookmark(1, Stranger, << "a" >>, << "https://", "a" >>) }
    /\ nextId = 2
    /\ events = 0
    /\ hist = NoHistory
    /\ phase = "mounted"
    /\ session = 1
    /\ rtAuth = 0
    /\ setup = AwaitingSession
    /\ channels = [c \in ChannelNames |->
                     IF c = "changes" THEN Subscribe(0) ELSE NoChannel]
    /\ listeners = AllListeners
    /\ lastEvent = 0

Init ==
    /\ title = << >>
    /\ url = << >>
    /\ Mounted

Next ==
    \/ \E t \in FormTitles : TypeTitle(t)
    \/ \E u \in FormUrls : TypeUrl(u)
    \/ AddBookmark
    \/ StoreInsert
    \/ AddDone
    \/ \E id \in 1..MaxId : DeleteBookmark(id)
    \/ \E j \in 1..MaxDel : StoreDelete(j)
    \/ \E j \in 1..MaxDel : DeleteDone(j)
    \/ Focus
    \/ Notify
    \/ \E i \in 1..MaxFetch : SelectFails(i)
    \/ \E i \in 1..MaxFetch : SelectServes(i)
    \/ \E i \in 1..MaxFetch : FetchDone(i)
    \/ \E own \in BOOLEAN : TimerFire(own)
    \/ OtherInsert

Spec == Init /\ [][Next]_vars

\* A pending timeout fires after its delay.
FairSpec == Spec /\ WF_vars(TimerFire(TRUE))

\* The component while every select of the store succeeds.
OkNext ==
    \/ \E t \in FormTitles : TypeTitle(t)
    \/ \E u \in FormUrls : TypeUrl(u)
    \/ AddBookmark
    \/ StoreInsert
    \/ AddDone
    \/ \E id \in 1..MaxId : DeleteBookmark(id)
    \/ \E j \in 1..MaxDel : StoreDelete(j)
    \/ \E j \in 1..MaxDel : DeleteDone(j)
    \/ Focus
    \/ Notify
    \/ \E i \in 1..MaxFetch : SelectServes(i)
    \/ \E i \in 1..MaxFetch : FetchDone(i)
    \/ \E own \in BOOLEAN : TimerFire(own)
    \/ OtherInsert

OkSpec == Init /\ [][OkNext]_vars

\* The submit handler on every text the form can hold.
FormInit ==
    /\ title \in SeqsUpTo(TitleTokens, MaxLen)
    /\ url \in SeqsUpTo(UrlTokens, MaxLen)
    /\ Mounted

FormNext == AddBookmark

FormSpec == FormInit /\ [][FormNext]_vars

\* The component from its first render, before the effects have run, with
\* its subscriptions and listeners; the store does not answer.
Rendered ==
    /\ title = << >>
    /\ url = << >>
    /\ items = << >>
    /\ loading = TRUE
    /\ submitting = FALSE
    /\ deletingId = 0
    /\ message = NoMessage
    /\ timers = NoTimers
    /\ fetch = [i \in 1..MaxFetch |-> IdleFetch]
    /\ add = IdleAdd
    /\ del = [j \in 1..MaxDel |-> IdleDel]
    /\ store = { Bookmark(1, Stranger, << "a" >>, << "https://", "a" >>) }
    /\ nextId = 2
    /\ events = 0
    /\ hist = NoHistory
    /\ phase = "rendered"
    /\ session = 1
    /\ rtAuth = 0
    /\ setup = IdleSetup
    /\ channels = [c \in ChannelNames |-> NoChannel]
    /\ listeners = NoListeners
    /\ lastEvent = 0

LifeNext ==
    \/ MountEffects
    \/ GetSessionResolves
    \/ SetupContinues
    \/ \E t \in 0..MaxToken : SessionChange(t)
    \/ Unmount
    \/ FocusEvent
    \/ VisibilityEvent

LifeSpec == Rendered /\ [][LifeNext]_vars

----------------------------------------------------------------------------
(* Properties *)

Count(seq, id) == Cardinality({ k \in 1..Len(seq) : seq[k].id = id })

RECURSIVE Without(_, _)
\* seq with every entry of identifier id taken out, the others in place
Without(seq, id) ==
    IF seq = << >> THEN << >>
    ELSE IF Head(seq).id = id THEN Without(Tail(seq), id)
    ELSE << Head(seq) >> \o Without(Tail(seq), id)

\* Nothing is in flight and no change event waits for its handler.
Quiescent ==
    /\ \A i \in 1..MaxFetch : fetch[i].phase = "idle"
    /\ \A j \in 1..MaxDel : del[j].phase = "idle"
    /\ add.phase = "idle"
    /\ events = 0

\* C1: when the continuation of addBookmark handles an acknowledged insert
\* that returned the record, the collection afterwards holds that record's
\* identifier exactly once, at the head, whatever refreshes were applied
\* before.
C1_AddedOnceAtHead ==
    [][ (AddDone /\ add.error = "" /\ add.data # << >>)
        => /\ Head(items').id = add.data[1].id
           /\ Count(items', add.data[1].id) = 1 ]_vars

\* C2: the input is malformed when the title or the URL is blank, or the URL
\* does not parse after the scheme was put in front.
Malformed(t, u) ==
    \/ Trim(t) = << >>
    \/ Trim(u) = << >>
    \/ ~UrlParses(normalizeUrl(u))

ValidationTexts ==
    { "Please enter a title.", "Please enter a URL.", "Please enter a valid URL." }

\* C2: a submit of malformed input ends with a validation error as the
\* notice, sends no insert, does not turn submitting on and leaves the
\* collection as it was.
C2_MalformedRejected ==
    [][ (AddBookmark /\ Malformed(title, url))
        => /\ message'.type = "err"
           /\ message'.text \in ValidationTexts
           /\ submitting' = FALSE
           /\ add' = add /\ add.phase = "idle"
           /\ store' = store
           /\ items' = items ]_vars

\* C2 witness: the submit handler has rejected a URL that does not parse.
C2_Witness ==
    /\ Trim(title) # << >>
    /\ Trim(url) # << >>
    /\ ~UrlParses(normalizeUrl(url))
    /\ message = Notice("err", "Please enter a valid URL.")
    /\ ~submitting
    /\ add.phase = "idle"

\* C3: the continuation of a confirmed delete leaves the collection as it
\* was but for the entries with the deleted identifier: none of them stays,
\* every other entry stays, in the same order.
C3_RemovedById ==
    [][ \A j \in 1..MaxDel :
          (DeleteDone(j) /\ del[j].error = "")
          => /\ items' = Without(items, del[j].id)
             /\ del[j].id \notin { items'[k].id : k \in 1..Len(items') } ]_vars

\* C3 witness: a confirmed delete was the last thing applied to the
\* collection and another entry is still there.
C3_Witness ==
    /\ hist.op = "del"
    /\ items # << >>
    /\ hist.removed \notin ItemIds

\* C4: the continuation of a rejected delete leaves the collection as it
\* was, clears deletingId and shows the store's error message.
C4_RejectedDelete ==
    [][ \A j \in 1..MaxDel :
          (DeleteDone(j) /\ del[j].error # "")
          => /\ items' = items
             /\ deletingId' = 0
             /\ message' = [type |-> "err", text |-> del[j].error] ]_vars

\* C4 witness: a delete was rejected and its entry is still shown.
C4_Witness ==
    /\ message = [type |-> "err", text |-> "delete failed"]
    /\ deletingId = 0
    /\ \A j \in 1..MaxDel : del[j].phase = "idle"
    /\ items # << >>
    /\ hist.removed = 0

C6_LastRefreshWins ==
    hist.op = "fetch" => items = hist.data

\* C6 witness: two refreshes overlapped, both have completed, and the one
\* applied first had left a different collection.
C6_Witness ==
    /\ hist.op = "fetch"
    /\ hist.over
    /\ \A i \in 1..MaxFetch : fetch[i].phase = "idle"
    /\ items = hist.data

\* The owner's rows in the store, newest first.
OwnerRows ==
    LET own == { r \in store : r.user_id = Owner }
    IN  [k \in 1..Cardinality(own) |->
           CHOOSE r \in own :
              Cardinality({ q \in own : q.created_at > r.created_at }) = k - 1]

\* C7, as claimed: once nothing is in flight and every change event was
\* handled, the collection is the owner's rows of the store.
C7_Converges ==
    Quiescent => items = OwnerRows

\* C7, amended: while the last thing applied to the collection is a
\* successful refresh that read the store after the latest change of the
\* owner's rows, the collection is the owner's rows of the store.
C7_FreshRefreshInSync ==
    (hist.op = "fetch" /\ hist.fresh) => items = OwnerRows

\* C7 witness: rows were added from here and from another session, and
\* after the refreshes the collection shows both and nothing is in flight.
C7_Witness ==
    /\ hist.op = "fetch"
    /\ hist.fresh
    /\ Quiescent
    /\ Len(items) = 2
    /\ items = OwnerRows

C9_TimerOfCurrentNotice ==
    /\ timers.old = 0
    /\ timers.cur = IF message = NoMessage THEN 0 ELSE 1

\* C9: every notice shown is cleared in the end.
C9_NoticeCleared == (message # NoMessage) ~> (message = NoMessage)

\* C9: both of the above.
C9_NoticeTimer == []C9_TimerOfCurrentNotice /\ C9_NoticeCleared

\* C9 witness: an error notice of a failed refresh is shown after a delete
\* had reported its own notice, and exactly its own timer is pending.
C9_Witness ==
    /\ message = [type |-> "err", text |-> "select failed"]
    /\ hist.op = "del"
    /\ timers = [cur |-> 1, old |-> 0]

\* C10: every record of the collection belongs to the user the component
\* was rendered for.
C10_OwnRowsOnly ==
    \A k \in 1..Len(items) : items[k].user_id = Owner

\* C10 witness: the table holds a row of another user and the collection,
\* filled by a refresh and by an add, shows rows.
C10_Witness ==
    /\ \E r \in store : r.user_id # Owner
    /\ Len(items) >= 2
    /\ hist.op = "add"

\* C11: once the cleanups of the effects have run, no channel the component
\* created is subscribed, also when they ran while setupRealtime was still
\* waiting for the session.
C11_ChannelsReleased ==
    phase = "torn" => \A c \in ChannelNames : channels[c].state # "subscribed"

\* C12: every channel that was subscribed while a session existed was
\* subscribed after the transport had been given the token of that session.
C12_AuthBeforeSubscribe ==
    \A c \in ChannelNames :
       (channels[c].state # "none" /\ channels[c].sess # 0)
       => channels[c].auth = channels[c].sess

\* C13: once the auth listener was handed a session with token T, the
\* transport's token is T until the listener is handed the next token; the
\* token of a getSession call that read the session earlier does not take
\* its place.
C13_AuthFollowsRotation ==
    lastEvent # 0 => rtAuth = lastEvent

\* C20: after the cleanups of the effects have run, no focus or visibility
\* event starts a fetch.
C20_NoFetchAfterTeardown ==
    [][ phase = "torn" => fetch' = fetch ]_vars

\* C14: the submit handler and the store's handling of the insert leave the
\* collection as it is, and the continuation of a rejected insert leaves the
\* collection as it is, ends submitting, has no insert pending any more and
\* shows the store's error message as it came.
C14_NoSpeculativeEntry ==
    [][ /\ (AddBookmark \/ StoreInsert) => items' = items
        /\ (AddDone /\ add.error # "")
           => /\ items' = items
              /\ submitting' = FALSE
              /\ add' = IdleAdd
              /\ message' = [type |-> "err", text |-> add.error] ]_vars

\* C14 witness: an insert was rejected while the collection shows a row.
C14_Witness ==
    /\ message = [type |-> "err", text |-> "insert failed"]
    /\ ~submitting
    /\ add = IdleAdd
    /\ items # << >>

\* C15: the collection is ordered newest first by created_at.
C15_NewestFirst ==
    \A k \in 1..(Len(items) - 1) :
       items[k].created_at >= items[k + 1].created_at

\* C16: while the delete of a row is at the store, deletingId is the
\* identifier of that row, also when another row's delete was started since.
C16_PendingIdHeld ==
    \A j \in 1..MaxDel : del[j].phase = "req" => deletingId = del[j].id

\* C17: when the insert is acknowledged without a record, the continuation
\* leaves the collection as it is and sends a select, and when that select
\* succeeds its rows replace the collection.
C17_FallbackRefresh ==
    [][ /\ (AddDone /\ add.error = "" /\ add.data = << >>)
           => /\ items' = items
              /\ \E i \in 1..MaxFetch :
                    /\ fetch[i].phase = "idle"
                    /\ fetch'[i].phase = "req"
                    /\ fetch'[i].by = "add"
        /\ \A i \in 1..MaxFetch :
              (FetchDone(i) /\ fetch[i].by = "add" /\ fetch[i].error = "")
              => items' = fetch[i].data ]_vars

\* C17 witness: the fallback refresh of an add has brought rows that the
\* collection does not show yet.
C17_Witness ==
    /\ add = IdleAdd
    /\ \E i \in 1..MaxFetch :
          /\ fetch[i].by = "add"
          /\ fetch[i].phase = "resp"
          /\ fetch[i].error = ""
          /\ fetch[i].data # << >>
          /\ fetch[i].data # items

\* C18: when a select has failed, whoever called fetchBookmarks, the
\* collection stays as it was and the store's error message is the notice
\* once the caller has finished.
C18_FailedFetchSurfaced ==
    [][ \A i \in 1..MaxFetch :
          (FetchDone(i) /\ fetch[i].error # "")
          => /\ items' = items
             /\ message' = [type |-> "err", text |-> fetch[i].error] ]_vars

\* C19: loading is on exactly until the initial fetchBookmarks call has
\* returned, with rows or with an error, and is never turned on again.
C19_LoadingUntilInitialFetch ==
    /\ [](loading <=> \E i \in 1..MaxFetch :
                         fetch[i].by = "init" /\ fetch[i].phase # "idle")
    /\ [][loading' => loading]_vars

\* C19 witness: the initial select has failed, loading is off, and a later
\* refresh is in flight.
C19_Witness ==
    /\ ~loading
    /\ hist.op = "none"
    /\ message = [type |-> "err", text |-> "select failed"]
    /\ \E i \in 1..MaxFetch : fetch[i].by = "event" /\ fetch[i].phase = "req"

====
